---- MODULE Spec2Model ----
(***************************************************************************)
(* A model of mach-o-inspect: machob_harvester.py (the scanner that walks  *)
(* directories, sniffs Mach-O magic bytes, calls otool and stores what it  *)
(* parses into SQLite) and the load-command queries of dashboard.py.       *)
(*                                                                         *)
(* Text is modelled at the level of whitespace-separated tokens: a line of *)
(* tool output is the sequence of its tokens (what str.split() returns),   *)
(* an output is a sequence of lines (what str.splitlines() returns).       *)
(***************************************************************************)
EXTENDS Integers, Sequences, FiniteSets, TLC

VARIABLES
    fs,     \* the file system: path -> entry (directory, regular file, symlink)
    argv,   \* args.directories, the root directories of the command line
    db,     \* the committed content of mach_o_binaries.db (what a reader sees)
    tx,     \* the content as seen through `conn`: db plus uncommitted inserts
    pc,     \* position of the harvester process
    di,     \* index in argv of the directory main() is at
    queue,  \* file paths os.walk has still to yield for the current root
    cur,    \* locals of the running process_file call
    log,    \* history: the stages the running/last process_file call has run
    sniff,  \* history: the last is_mach_o call and what it returned
    err,    \* the unhandled exception (or hang) that stopped the process
    db0     \* history: the content of the database file when the run started

vars == <<fs, argv, db, tx, pc, di, queue, cur, log, sniff, err, db0>>

-----------------------------------------------------------------------------
(* Bounds of the model *)

\* longest list of root directories on the command line
MaxRoots == 2
\* most architecture slices (header lines of otool -hv) in one file
MaxSlices == 2
\* most load commands in one file
MaxBlocks == 2
\* most bytes a sniffed file has beyond its first four
MaxTail == 1

\* number of bytes is_mach_o reads
MagicLen == 4

\* a nullable INTEGER column holds NULL or Value(n)
NULL     == <<>>
Value(n) == <<n>>

SeqsUpTo(S, n) == UNION {[1..k -> S] : k \in 0..n}

Min(a, b) == IF a < b THEN a ELSE b

RECURSIVE Flatten(_)
Flatten(ss) == IF ss = <<>> THEN <<>> ELSE Head(ss) \o Flatten(Tail(ss))

Range(s) == {s[i] : i \in DOMAIN s}

-----------------------------------------------------------------------------
(* is_mach_o *)

MH_MAGIC     == <<254, 237, 250, 206>>
MH_CIGAM     == <<206, 250, 237, 254>>
MH_MAGIC_64  == <<254, 237, 250, 207>>
MH_CIGAM_64  == <<207, 250, 237, 254>>
FAT_MAGIC    == <<202, 254, 186, 190>>
FAT_CIGAM    == <<190, 186, 254, 202>>
FAT_MAGIC_64 == <<202, 254, 186, 191>>
FAT_CIGAM_64 == <<191, 186, 254, 202>>

MagicList == {MH_MAGIC, MH_CIGAM, MH_MAGIC_64, MH_CIGAM_64,
              FAT_MAGIC, FAT_CIGAM, FAT_MAGIC_64, FAT_CIGAM_64}

\* f.read(n): at most n bytes from the start of the file
read(bytes, n) == SubSeq(bytes, 1, Min(n, Len(bytes)))

\* a faulty variant of is_mach_o: compares only the bytes the 32/64-bit magics share
is_mach_o_three_bytes(f) ==
    /\ f.readable
    /\ \E m \in MagicList : read(f.bytes, MagicLen - 1) = SubSeq(m, 1, MagicLen - 1)

\* open() raising (unreadable file) is swallowed by the bare except
is_mach_o(f) ==
    IF ~f.readable THEN FALSE
    ELSE read(f.bytes, MagicLen) \in MagicList

-----------------------------------------------------------------------------
(* The file system, os.path.isdir / isfile and os.walk(followlinks=False) *)

DirEntry(names)  == [kind |-> "dir", entries |-> names, target |-> "", file |-> <<>>]
FileEntry(f)     == [kind |-> "file", entries |-> <<>>, target |-> "", file |-> <<f>>]
LinkEntry(to)    == [kind |-> "link", entries |-> <<>>, target |-> to, file |-> <<>>]

Exists(F, p) == p \in DOMAIN F

\* the entry a path leads to once a symlink is followed ("" when there is none)
Resolve(F, p) ==
    IF ~Exists(F, p) THEN ""
    ELSE IF F[p].kind = "link"
         THEN (IF Exists(F, F[p].target) THEN F[p].target ELSE "")
         ELSE p

KindAt(F, p) == IF Resolve(F, p) = "" THEN "none" ELSE F[Resolve(F, p)].kind

isdir(F, p)  == KindAt(F, p) = "dir"
isfile(F, p) == KindAt(F, p) = "file"
islink(F, p) == Exists(F, p) /\ F[p].kind = "link"

\* the content open(p) / otool reach (symlinks are followed by both)
FileAt(F, p) == F[Resolve(F, p)].file[1]

\* os.walk: the (dirpath, filename) pairs in the order the two loops of
\* walk_directory see them: the non-directories of a directory first, then its
\* sub-directories top-down; a symlink to a directory is listed but not entered
RECURSIVE WalkFiles(_, _)
WalkFiles(F, top) ==
    IF ~isdir(F, top) THEN <<>>
    ELSE LET names    == F[Resolve(F, top)].entries
             nondirs  == SelectSeq(names, LAMBDA n : ~isdir(F, n))
             dirs     == SelectSeq(names, LAMBDA n : isdir(F, n))
             into     == SelectSeq(dirs, LAMBDA n : ~islink(F, n))
         IN  nondirs \o Flatten([i \in DOMAIN into |-> WalkFiles(F, into[i])])

-----------------------------------------------------------------------------
(* Tokens: the character-level tests of the code, on the tokens otool prints *)

\* str.isdigit() and int(): the decimal tokens, with their values
DecimalOf ==
    ("0" :> 0) @@ ("1" :> 1) @@ ("2" :> 2) @@ ("3" :> 3) @@ ("16" :> 16) @@
    ("24" :> 24) @@ ("56" :> 56) @@ ("72" :> 72) @@ ("88" :> 88) @@ ("112" :> 112)

isdigit(tok) == tok \in DOMAIN DecimalOf
int(tok)     == DecimalOf[tok]

\* re.match(r'(MH_|0x)', line): the tokens that begin with MH_ or with 0x
StartsMHor0x(tok) == tok \in {"MH_MAGIC", "MH_MAGIC_64", "0xfeedfacf", "0x00", "0x2"}

\* re.match(r'^[0-9A-Fa-f]+\s', line): the tokens made of hex digits only
IsHexTok(tok) ==
    tok \in {"0000000100003ae8", "0000000100003aec", "add", "0", "1", "2", "3",
             "16", "24", "56", "72", "88", "112"}

-----------------------------------------------------------------------------
(* otool, the external tool: what it prints for a file of the model.       *)
(* A file is [readable, bytes, rc, arm64, hdr, lcs, text]: rc is otool's   *)
(* exit status on it, hdr the data line of each architecture slice, lcs    *)
(* the load commands in on-disk order, text the arm64 instructions.        *)

ColumnLine == <<"magic", "cputype", "cpusubtype", "caps", "filetype", "ncmds",
                "sizeofcmds", "flags">>

\* otool -hv
otool_hv(path, f) ==
    [rc  |-> f.rc,
     out |-> IF f.rc # 0 THEN << <<path>> >>
             ELSE Flatten([i \in DOMAIN f.hdr |->
                      << <<path>>, <<"Mach", "header">>, ColumnLine, f.hdr[i] >>])]

\* otool -l
otool_l(path, f) ==
    [rc  |-> f.rc,
     out |-> IF f.rc # 0 THEN << <<path>> >>
             ELSE << <<path>> >> \o
                  Flatten([i \in DOMAIN f.lcs |->
                      << <<"Load", "command", ToString(i - 1)>>,
                         <<"cmd", f.lcs[i].cmd>>,
                         <<"cmdsize", f.lcs[i].cmdsize>> >> \o f.lcs[i].extra])]

\* otool -arch arm64 -tV: fails when the file has no arm64 slice
otool_tV(path, f) ==
    [rc  |-> IF f.arm64 THEN f.rc ELSE 1,
     out |-> IF f.rc # 0 \/ ~f.arm64 THEN << <<path>> >>
             ELSE << <<path>>, <<"(__TEXT,__text)", "section">>, <<"_main:">> >> \o
                  [i \in DOMAIN f.text |->
                      <<f.text[i].addr, f.text[i].mnemonic>> \o f.text[i].operands]]

-----------------------------------------------------------------------------
(* The parsers of machob_harvester.py *)

IsHeaderLine(line) == Len(line) > 0 /\ StartsMHor0x(line[1])

HeaderTuple(parts) ==
    [magic |-> parts[1], cputype |-> parts[2], cpusubtype |-> parts[3],
     caps |-> parts[4], filetype |-> parts[5], ncmds |-> parts[6],
     sizeofcmds |-> parts[7], flags |-> SubSeq(parts, 8, Len(parts))]

\* a faulty variant of get_mach_header_info: a data line with too few fields ends the
\* loop (break) instead of being passed over (continue)
get_mach_header_info_break(r) ==
    IF r.rc # 0 THEN <<>>
    ELSE LET lines == SelectSeq(r.out, IsHeaderLine)
             short == {i \in DOMAIN lines : Len(lines[i]) < 7}
             upto  == IF short = {} THEN Len(lines)
                      ELSE (CHOOSE i \in short : \A j \in short : i <= j) - 1
         IN  [i \in 1..upto |-> HeaderTuple(lines[i])]

\* get_mach_header_info on a call of otool that returned r = [rc, out]:
\* a non-zero exit is CalledProcessError, caught, and gives []
get_mach_header_info(r) ==
    IF r.rc # 0 THEN <<>>
    ELSE LET lines == SelectSeq(r.out, IsHeaderLine)
             kept  == SelectSeq(lines, LAMBDA l : Len(l) >= 7)
         IN  [i \in DOMAIN kept |-> HeaderTuple(kept[i])]

\* get_arm64_instructions on a call that returned
get_arm64_instructions(r) ==
    IF r.rc # 0 THEN <<>>
    ELSE LET hits == SelectSeq(r.out, LAMBDA l : Len(l) >= 2 /\ IsHexTok(l[1]))
         IN  [i \in DOMAIN hits |-> hits[i][2]]

StartsLoadCommand(line) == Len(line) >= 2 /\ line[1] = "Load" /\ line[2] = "command"

NewLoadCmd == [command |-> "", cmdsize |-> "", details |-> <<>>]

\* the body of the elif branch, lines 193-208
InBlock(c, line) ==
    LET c1 == IF Len(line) >= 2 /\ line[1] = "cmd"
                  THEN [c EXCEPT !.command = line[2]]
              ELSE IF Len(line) >= 2 /\ line[1] = "cmdsize"
                  THEN [c EXCEPT !.cmdsize = line[2]]
              ELSE c
    IN  [c1 EXCEPT !.details = Append(@, line)]

\* the loop of get_load_commands, lines 182-212; current is <<>> for None
RECURSIVE ParseLoadLines(_, _, _)
ParseLoadLines(lines, commands, current) ==
    IF lines = <<>>
    THEN commands \o current
    ELSE LET line == Head(lines) IN
         IF StartsLoadCommand(line)
         THEN ParseLoadLines(Tail(lines), commands \o current, <<NewLoadCmd>>)
         ELSE IF current # <<>>
         THEN ParseLoadLines(Tail(lines), commands, <<InBlock(current[1], line)>>)
         ELSE ParseLoadLines(Tail(lines), commands, current)

\* a faulty variant of get_load_commands: the block open at the end of the output is
\* not appended
get_load_commands_no_last(r) ==
    IF r.rc # 0 THEN <<>>
    ELSE LET all == ParseLoadLines(r.out, <<>>, <<>>)
         IN  SubSeq(all, 1, Len(all) - 1)

\* get_load_commands on a call that returned
get_load_commands(r) ==
    IF r.rc # 0 THEN <<>> ELSE ParseLoadLines(r.out, <<>>, <<>>)

-----------------------------------------------------------------------------
(* The store: the four tables of mach_o_binaries.db.  A table is the       *)
(* sequence of its rows in insertion order; rows are never deleted, so the *)
(* AUTOINCREMENT id of a new row is the number of rows plus one.           *)

\* the tables in the order the module creates them
Schema == <<"binary", "binary_header", "arm_asm_instructions", "load_commands">>

AllTables == Range(Schema)

\* tables lists the tables of the file, one entry per table created
NoDb == [tables |-> <<>>, binary |-> <<>>, binary_header |-> <<>>,
         arm_asm_instructions |-> <<>>, load_commands |-> <<>>]

\* CREATE TABLE IF NOT EXISTS name: nothing happens when the table is there
create_table(T, name) ==
    IF name \in Range(T.tables) THEN T ELSE [T EXCEPT !.tables = Append(@, name)]

\* a faulty variant of create_tables: the tables are dropped and created anew
create_tables_anew(T) == [NoDb EXCEPT !.tables = Schema]

\* CREATE TABLE IF NOT EXISTS, four times (lines 15-58)
create_tables(T) ==
    create_table(create_table(create_table(create_table(T,
        Schema[1]), Schema[2]), Schema[3]), Schema[4])

\* INSERT INTO binary (path) VALUES (?)
insert_binary(T, file_path) ==
    [T EXCEPT !.binary = Append(@, [id |-> Len(@) + 1, path |-> file_path])]

\* a faulty variant of lastrowid: the id is read before the insert is executed
lastrowid_before_insert(T) == Len(T.binary) - 1

\* cursor.lastrowid after the insert into binary
lastrowid(T) == Len(T.binary)

HeaderRow(id, binary_id, h) ==
    [id |-> id, binary_id |-> binary_id, magic |-> h.magic, cputype |-> h.cputype,
     cpusubtype |-> h.cpusubtype, caps |-> h.caps, filetype |-> h.filetype,
     ncmds      |-> IF isdigit(h.ncmds) THEN Value(int(h.ncmds)) ELSE NULL,
     sizeofcmds |-> IF isdigit(h.sizeofcmds) THEN Value(int(h.sizeofcmds)) ELSE NULL,
     flags |-> h.flags]

\* the loop of process_file over header_list, lines 250-273
insert_headers(T, binary_id, header_list) ==
    [T EXCEPT !.binary_header =
        @ \o [i \in DOMAIN header_list |->
                 HeaderRow(Len(@) + i, binary_id, header_list[i])]]

\* store_arm64_instructions, without its commit
store_arm64_instructions(T, binary_id, instructions) ==
    [T EXCEPT !.arm_asm_instructions =
        @ \o [i \in DOMAIN instructions |->
                 [id |-> Len(@) + i, binary_id |-> binary_id,
                  instruction |-> instructions[i]]]]

\* store_load_commands, without its commit
store_load_commands(T, binary_id, commands) ==
    [T EXCEPT !.load_commands =
        @ \o [i \in DOMAIN commands |->
                 [id |-> Len(@) + i, binary_id |-> binary_id,
                  command |-> commands[i].command, cmdsize |-> commands[i].cmdsize,
                  details |-> commands[i].details]]]

-----------------------------------------------------------------------------
(* dashboard.py: the load-command frame and the missing-signature query *)

\* load_load_commands: load_commands JOIN binary ON lc.binary_id = b.id
load_load_commands(D) ==
    {[load_cmd_id |-> lc.id, binary_path |-> b.path, command |-> lc.command]
        : <<lc, b>> \in {x \in Range(D.load_commands) \X Range(D.binary)
                            : x[1].binary_id = x[2].id}}

\* main, lines 285-293: the set shown under "Binaries Missing LC_CODE_SIGNATURE"
missing_code_sig(D) ==
    LET df_load                == load_load_commands(D)
        binaries_with_code_sig == {r.binary_path : r \in
                                     {x \in df_load : x.command = "LC_CODE_SIGNATURE"}}
        all_binaries_loadcmd   == {r.binary_path : r \in df_load}
    IN  all_binaries_loadcmd \ binaries_with_code_sig

-----------------------------------------------------------------------------
(* The inputs: files, file systems, command lines and earlier stores *)

MkFile(readable, bytes, rc, arm64, hdr, lcs, text) ==
    [readable |-> readable, bytes |-> bytes, rc |-> rc, arm64 |-> arm64,
     hdr |-> hdr, lcs |-> lcs, text |-> text]

\* data lines of otool -hv: two well-formed slices (one without flags), one cut
\* short before sizeofcmds, one whose ncmds is not a decimal number
Good64      == <<"MH_MAGIC_64", "ARM64", "ALL", "0x00", "EXECUTE", "2", "88",
                 "NOUNDEFS", "PIE">>
GoodNoFlags == <<"MH_MAGIC", "I386", "ALL", "0x00", "OBJECT", "1", "72">>
ShortLine   == <<"MH_MAGIC_64", "ARM64", "ALL", "0x00", "EXECUTE", "2">>
NonDigit    == <<"0xfeedfacf", "X86_64", "ALL", "0x00", "EXECUTE", "0x2", "88", "PIE">>

HdrLines == {Good64, GoodNoFlags, ShortLine, NonDigit}

\* load commands as they lie in the file
Seg == [cmd |-> "LC_SEGMENT_64", cmdsize |-> "72",
        extra |-> << <<"segname", "__TEXT">> >>]
Sig == [cmd |-> "LC_CODE_SIGNATURE", cmdsize |-> "16", extra |-> <<>>]

Blocks == {Seg, Sig}

Code == << [addr |-> "0000000100003ae8", mnemonic |-> "add",
            operands |-> <<"x0,", "x0,", "#0x100">>],
           [addr |-> "0000000100003aec", mnemonic |-> "ret", operands |-> <<>>] >>

\* a shell script, a signed thin arm64 executable, a copy of it cut after its
\* first load command, and a file with the magic that otool rejects
Script     == MkFile(TRUE, <<35, 33, 47, 98, 105>>, 1, FALSE, <<>>, <<>>, <<>>)
ThinSigned == MkFile(TRUE, MH_CIGAM_64 \o <<12>>, 0, TRUE, <<Good64>>, <<Seg, Sig>>, Code)
Truncated  == MkFile(TRUE, MH_CIGAM_64 \o <<12>>, 0, TRUE, <<Good64>>, <<Seg>>, <<>>)
Corrupt    == MkFile(TRUE, MH_MAGIC_64, 1, FALSE, <<>>, <<>>, <<>>)

Catalogue == {Script, ThinSigned, Truncated, Corrupt}

\* /a holds a file, a symlink to a file, a symlink to a directory, a broken
\* symlink and the directory /a/b, which holds one file
Tree(f1, f2) ==
    ("/a"      :> DirEntry(<<"/a/f1", "/a/ln", "/a/dl", "/a/gone", "/a/b">>)) @@
    ("/a/f1"   :> FileEntry(f1)) @@
    ("/a/ln"   :> LinkEntry("/a/b/f2")) @@
    ("/a/dl"   :> LinkEntry("/a/b")) @@
    ("/a/gone" :> LinkEntry("/nowhere")) @@
    ("/a/b"    :> DirEntry(<<"/a/b/f2">>)) @@
    ("/a/b/f2" :> FileEntry(f2))

Trees == {Tree(f1, f2) : f1, f2 \in Catalogue}

\* one directory holding a shell script and one more file
OneFile(f) ==
    ("/r" :> DirEntry(<<"/r/s", "/r/f">>)) @@
    ("/r/s" :> FileEntry(Script)) @@ ("/r/f" :> FileEntry(f))

\* the command lines over the tree: 1..MaxRoots of /a, /a/b and a path that
\* is no directory
RootLists == SeqsUpTo({"/a", "/a/b", "/x"}, MaxRoots) \ {<<>>}

\* the store an earlier run over ThinSigned at /a/f1 left behind
PriorDb ==
    LET t0 == insert_binary(create_tables(NoDb), "/a/f1")
        t1 == insert_headers(t0, 1, get_mach_header_info(otool_hv("/a/f1", ThinSigned)))
        t2 == store_arm64_instructions(t1, 1,
                  get_arm64_instructions(otool_tV("/a/f1", ThinSigned)))
    IN  store_load_commands(t2, 1, get_load_commands(otool_l("/a/f1", ThinSigned)))

\* files of every shape the parsers distinguish
RichFiles ==
    {MkFile(TRUE, MH_MAGIC_64, 0, at[1], hdr, lcs, at[2]) :
        at \in {<<FALSE, <<>>>>, <<TRUE, <<>>>>, <<TRUE, Code>>},
        hdr \in SeqsUpTo(HdrLines, MaxSlices),
        lcs \in SeqsUpTo(Blocks, MaxBlocks)}
    \cup {Corrupt}

\* files of every content is_mach_o distinguishes: up to MagicLen bytes of the
\* magic values, and whole prefixes followed by up to MaxTail more bytes
MagicBytes == UNION {Range(m) : m \in MagicList}

SniffContents ==
    UNION {{b \o t : t \in IF Len(b) < MagicLen THEN {<<>>} ELSE SeqsUpTo({0}, MaxTail)}
              : b \in SeqsUpTo(MagicBytes, MagicLen)}

SniffFiles ==
    {MkFile(r, c, 0, TRUE, <<Good64>>, <<Seg, Sig>>, Code) :
        r \in BOOLEAN, c \in SniffContents}

-----------------------------------------------------------------------------
(* The harvester process *)

Idle == [file_path |-> "", binary_id |-> 0, header_list |-> <<>>,
         arm64_instructions |-> <<>>, load_cmds |-> <<>>]

NoSniff == [path |-> "", result |-> FALSE]
NoErr   == [where |-> "", exc |-> ""]

InitOver(FS, ARGV, DB) ==
    /\ fs \in FS
    /\ argv \in ARGV
    /\ db \in DB
    /\ tx = db
    /\ db0 = db
    /\ pc = "create_tables"
    /\ di = 1
    /\ queue = <<>>
    /\ cur = Idle
    /\ log = <<>>
    /\ sniff = NoSniff
    /\ err = NoErr

\* how a call of otool ends, apart from its exit status: it returns, the
\* executable is not found, its output is no valid text, or it never returns
ToolOutcomes == {"returned", "FileNotFoundError", "UnicodeDecodeError", "hang"}

\* how a write to the store ends
StoreOutcomes == {"ok", "sqlite3.Error"}

\* an exception nothing catches: the traceback ends the process, and closing
\* the connection rolls back what was not committed
Raise(where, exc) ==
    /\ pc' = "aborted"
    /\ err' = [where |-> where, exc |-> exc]
    /\ tx' = db

\* subprocess.check_output without a timeout never returns
Hang(where) ==
    /\ pc' = "blocked"
    /\ err' = [where |-> where, exc |-> "hang"]
    /\ tx' = tx

\* lines 9-60: connect, CREATE TABLE IF NOT EXISTS x 4, commit
CreateTables ==
    /\ pc = "create_tables"
    /\ tx' = create_tables(tx)
    /\ db' = tx'
    /\ pc' = "main"
    /\ UNCHANGED <<fs, argv, di, queue, cur, log, sniff, err, db0>>

\* main, lines 318-320: the next root is a directory, walk it
MainWalk ==
    /\ pc = "main"
    /\ di <= Len(argv)
    /\ isdir(fs, argv[di])
    /\ queue' = WalkFiles(fs, argv[di])
    /\ pc' = "walk"
    /\ UNCHANGED <<fs, argv, db, tx, di, cur, log, sniff, err, db0>>

\* main, lines 321-322: the next root is no directory, warn and go on
MainWarn ==
    /\ pc = "main"
    /\ di <= Len(argv)
    /\ ~isdir(fs, argv[di])
    /\ di' = di + 1
    /\ UNCHANGED <<fs, argv, db, tx, pc, queue, cur, log, sniff, err, db0>>

\* main, lines 324-326: conn.close()
MainClose ==
    /\ pc = "main"
    /\ di > Len(argv)
    /\ tx' = db
    /\ pc' = "done"
    /\ UNCHANGED <<fs, argv, db, di, queue, cur, log, sniff, err, db0>>

\* walk_directory: os.walk is exhausted, back in the loop of main
WalkReturn ==
    /\ pc = "walk"
    /\ queue = <<>>
    /\ di' = di + 1
    /\ pc' = "main"
    /\ UNCHANGED <<fs, argv, db, tx, queue, cur, log, sniff, err, db0>>

\* walk_directory, lines 294-300: not a regular file, or not Mach-O
WalkSkip ==
    /\ pc = "walk"
    /\ queue # <<>>
    /\ LET file_path == Head(queue) IN
         /\ IF isfile(fs, file_path) THEN ~is_mach_o(FileAt(fs, file_path)) ELSE TRUE
         /\ sniff' = IF isfile(fs, file_path)
                         THEN [path |-> file_path, result |-> FALSE]
                         ELSE sniff
    /\ queue' = Tail(queue)
    /\ UNCHANGED <<fs, argv, db, tx, pc, di, cur, log, err, db0>>

\* walk_directory, lines 300-301: a Mach-O file, process_file is called
WalkHit ==
    /\ pc = "walk"
    /\ queue # <<>>
    /\ LET file_path == Head(queue) IN
         /\ isfile(fs, file_path)
         /\ is_mach_o(FileAt(fs, file_path))
         /\ sniff' = [path |-> file_path, result |-> TRUE]
         /\ cur' = [Idle EXCEPT !.file_path = file_path]
    /\ log' = <<>>
    /\ pc' = "insert_binary"
    /\ UNCHANGED <<fs, argv, db, tx, di, queue, err, db0>>

\* process_file, lines 245-246: the row of the binary, not yet committed
InsertBinary ==
    /\ pc = "insert_binary"
    /\ \E outcome \in StoreOutcomes :
         IF outcome = "ok"
         THEN /\ tx' = insert_binary(tx, cur.file_path)
              /\ cur' = [cur EXCEPT !.binary_id = lastrowid(tx')]
              /\ log' = Append(log, "binary")
              /\ pc' = "get_mach_header_info"
              /\ UNCHANGED err
         ELSE /\ Raise("insert_binary", outcome)
              /\ UNCHANGED <<cur, log>>
    /\ UNCHANGED <<fs, argv, db, di, queue, sniff, db0>>

\* process_file, line 249: only CalledProcessError is caught
CallGetMachHeaderInfo ==
    /\ pc = "get_mach_header_info"
    /\ log' = Append(log, "headers")
    /\ \E outcome \in ToolOutcomes :
         CASE outcome = "returned" ->
                /\ cur' = [cur EXCEPT !.header_list = get_mach_header_info(
                              otool_hv(cur.file_path, FileAt(fs, cur.file_path)))]
                /\ pc' = "store_headers"
                /\ UNCHANGED <<tx, err>>
           [] outcome = "hang" ->
                Hang("get_mach_header_info") /\ UNCHANGED cur
           [] OTHER ->
                Raise("get_mach_header_info", outcome) /\ UNCHANGED cur
    /\ UNCHANGED <<fs, argv, db, di, queue, sniff, db0>>

\* a faulty variant of StoreHeaders: the load commands are harvested next, before the
\* instructions
StoreHeaders_then_load_commands ==
    /\ pc = "store_headers"
    /\ tx' = insert_headers(tx, cur.binary_id, cur.header_list)
    /\ db' = tx'
    /\ pc' = "get_load_commands"
    /\ UNCHANGED <<fs, argv, di, queue, cur, log, sniff, err, db0>>

\* process_file, lines 250-275: the header rows, then the first commit
StoreHeaders ==
    /\ pc = "store_headers"
    /\ \E outcome \in StoreOutcomes :
         IF outcome = "ok"
         THEN /\ tx' = insert_headers(tx, cur.binary_id, cur.header_list)
              /\ db' = tx'
              /\ pc' = "get_arm64_instructions"
              /\ UNCHANGED err
         ELSE /\ Raise("store_headers", outcome)
              /\ UNCHANGED db
    /\ UNCHANGED <<fs, argv, di, queue, cur, log, sniff, db0>>

\* process_file, line 278: CalledProcessError and FileNotFoundError give []
CallGetArm64Instructions ==
    /\ pc = "get_arm64_instructions"
    /\ log' = Append(log, "instructions")
    /\ \E outcome \in ToolOutcomes :
         CASE outcome = "returned" ->
                /\ cur' = [cur EXCEPT !.arm64_instructions = get_arm64_instructions(
                              otool_tV(cur.file_path, FileAt(fs, cur.file_path)))]
                /\ pc' = "store_arm64_instructions"
                /\ UNCHANGED <<tx, err>>
           [] outcome = "FileNotFoundError" ->
                /\ cur' = [cur EXCEPT !.arm64_instructions = <<>>]
                /\ pc' = "store_arm64_instructions"
                /\ UNCHANGED <<tx, err>>
           [] outcome = "hang" ->
                Hang("get_arm64_instructions") /\ UNCHANGED cur
           [] OTHER ->
                Raise("get_arm64_instructions", outcome) /\ UNCHANGED cur
    /\ UNCHANGED <<fs, argv, db, di, queue, sniff, db0>>

\* process_file, lines 279-280: the instruction rows and their commit
StoreArm64Instructions ==
    /\ pc = "store_arm64_instructions"
    /\ IF cur.arm64_instructions = <<>>
       THEN /\ pc' = "get_load_commands"
            /\ UNCHANGED <<db, tx, err>>
       ELSE \E outcome \in StoreOutcomes :
              IF outcome = "ok"
              THEN /\ tx' = store_arm64_instructions(tx, cur.binary_id,
                                                     cur.arm64_instructions)
                   /\ db' = tx'
                   /\ pc' = "get_load_commands"
                   /\ UNCHANGED err
              ELSE /\ Raise("store_arm64_instructions", outcome)
                   /\ UNCHANGED db
    /\ UNCHANGED <<fs, argv, di, queue, cur, log, sniff, db0>>

\* process_file, line 283: only CalledProcessError is caught
CallGetLoadCommands ==
    /\ pc = "get_load_commands"
    /\ log' = Append(log, "load_commands")
    /\ \E outcome \in ToolOutcomes :
         CASE outcome = "returned" ->
                /\ cur' = [cur EXCEPT !.load_cmds = get_load_commands(
                              otool_l(cur.file_path, FileAt(fs, cur.file_path)))]
                /\ pc' = "store_load_commands"
                /\ UNCHANGED <<tx, err>>
           [] outcome = "hang" ->
                Hang("get_load_commands") /\ UNCHANGED cur
           [] OTHER ->
                Raise("get_load_commands", outcome) /\ UNCHANGED cur
    /\ UNCHANGED <<fs, argv, db, di, queue, sniff, db0>>

\* process_file, lines 284-285: the load-command rows and their commit; the
\* call returns and the walk goes on with the next file
StoreLoadCommands ==
    /\ pc = "store_load_commands"
    /\ IF cur.load_cmds = <<>>
       THEN /\ pc' = "walk"
            /\ queue' = Tail(queue)
            /\ cur' = Idle
            /\ UNCHANGED <<db, tx, err>>
       ELSE \E outcome \in StoreOutcomes :
              IF outcome = "ok"
              THEN /\ tx' = store_load_commands(tx, cur.binary_id, cur.load_cmds)
                   /\ db' = tx'
                   /\ pc' = "walk"
                   /\ queue' = Tail(queue)
                   /\ cur' = Idle
                   /\ UNCHANGED err
              ELSE /\ Raise("store_load_commands", outcome)
                   /\ UNCHANGED <<db, queue, cur>>
    /\ UNCHANGED <<fs, argv, di, log, sniff, db0>>

Next ==
    \/ CreateTables
    \/ MainWalk
    \/ MainWarn
    \/ MainClose
    \/ WalkReturn
    \/ WalkSkip
    \/ WalkHit
    \/ InsertBinary
    \/ CallGetMachHeaderInfo
    \/ StoreHeaders
    \/ CallGetArm64Instructions
    \/ StoreArm64Instructions
    \/ CallGetLoadCommands
    \/ StoreLoadCommands

\* a scan of the tree, for every command line, on a fresh or an earlier store
Init == InitOver(Trees, RootLists, {NoDb, PriorDb})

Spec == Init /\ [][Next]_vars

\* a scan of a directory holding a file of any shape
InitFile == InitOver({OneFile(f) : f \in RichFiles}, {<<"/x", "/r">>}, {NoDb})

SpecFile == InitFile /\ [][Next]_vars

\* a scan of a directory holding a file of any content
InitSniff == InitOver({OneFile(f) : f \in SniffFiles}, {<<"/x", "/r">>}, {NoDb})

SpecSniff == InitSniff /\ [][Next]_vars

-----------------------------------------------------------------------------
(* Notions the properties share *)

\* rows this run inserted: those beyond what the database held at the start
ThisRun(id) == id > Len(db0.binary)

\* the binary of a process_file call that returned (cur is reset on return and
\* kept when the process stops inside the call)
Finished(id) == id # cur.binary_id

RowsOf(table, id) == SelectSeq(table, LAMBDA r : r.binary_id = id)

IsPrefix(s, t) == Len(s) <= Len(t) /\ SubSeq(t, 1, Len(s)) = s

\* the Mach-O files the walks of all valid roots come across
MachOUnderRoots ==
    UNION {{p \in Range(WalkFiles(fs, argv[i])) :
               isfile(fs, p) /\ is_mach_o(FileAt(fs, p))} : i \in DOMAIN argv}

Stopped == pc \in {"done", "aborted"}

-----------------------------------------------------------------------------
(* C1 *)

\* C1: the scan never aborts because of one bad file: when the process has
\* ended, every Mach-O file under the roots other than the file whose
\* processing failed has its binary row in the store.
C1_ScanNeverAborts ==
    Stopped =>
        \A p \in MachOUnderRoots :
            p # cur.file_path =>
                \E b \in Range(db.binary) : ThisRun(b.id) /\ b.path = p

-----------------------------------------------------------------------------
(* C2 *)

\* C2: the records of one binary are persisted atomically: the rows of a binary
\* become visible in one commit, so a commit never adds header, instruction or
\* load-command rows to a binary whose row is already committed.
C2_AtomicPerBinary ==
    [][\A b \in Range(db.binary) :
          /\ RowsOf(db'.binary_header, b.id) = RowsOf(db.binary_header, b.id)
          /\ RowsOf(db'.arm_asm_instructions, b.id) = RowsOf(db.arm_asm_instructions, b.id)
          /\ RowsOf(db'.load_commands, b.id) = RowsOf(db.load_commands, b.id)]_vars

-----------------------------------------------------------------------------
(* C3 *)

\* the magic numbers of <mach-o/loader.h> and <mach-o/fat.h> as two 16-bit
\* halves: 0xfeedface, 0xfeedfacf, 0xcafebabe, 0xcafebabf
MagicHalves == {<<65261, 64206>>, <<65261, 64207>>, <<51966, 47806>>, <<51966, 47807>>}

BigEndian(h) == <<h[1] \div 256, h[1] % 256, h[2] \div 256, h[2] % 256>>
Swapped(b)   == <<b[4], b[3], b[2], b[1]>>

\* the eight recognized values: each magic number in both byte orders
Recognized ==
    {BigEndian(h) : h \in MagicHalves} \cup {Swapped(BigEndian(h)) : h \in MagicHalves}

\* C3: is_mach_o returns true exactly when the file can be read, has at least
\* four bytes and its first four bytes are one of the eight recognized magic
\* values; in every other case it returns false and the scan goes on.
C3_IsMachO ==
    sniff.path # "" =>
        LET f == FileAt(fs, sniff.path) IN
        /\ sniff.result <=>
              /\ f.readable
              /\ Len(f.bytes) >= 4
              /\ \E m \in Recognized : \A i \in 1..4 : f.bytes[i] = m[i]
        /\ err.where # "is_mach_o"

\* is_mach_o answered true on a file longer than its magic
C3_Witness ==
    /\ sniff.path # ""
    /\ sniff.result
    /\ Len(FileAt(fs, sniff.path).bytes) > 4

-----------------------------------------------------------------------------
(* C4 *)

\* the binaries of the store without a LC_CODE_SIGNATURE load command
WithoutCodeSignature(D) ==
    {b.path : b \in {x \in Range(D.binary) :
        \A lc \in Range(D.load_commands) :
            lc.binary_id = x.id => lc.command # "LC_CODE_SIGNATURE"}}

\* C4: after a scan, the missing-code-signature query returns exactly the
\* binaries that have no LC_CODE_SIGNATURE load command, those without any
\* load-command row included.
C4_MissingCodeSignature ==
    pc = "done" => missing_code_sig(db) = WithoutCodeSignature(db)

-----------------------------------------------------------------------------
(* C5 *)

\* the architecture slices otool -hv lists for the file of a binary
SlicesOf(b) ==
    LET f == FileAt(fs, b.path) IN IF f.rc # 0 THEN <<>> ELSE f.hdr

Decodable(slice) == Len(slice) >= 7 /\ isdigit(slice[6]) /\ isdigit(slice[7])

-----------------------------------------------------------------------------
(* C6 *)

RECURSIVE SumCmdsize(_)
SumCmdsize(rows) ==
    IF rows = <<>> THEN 0 ELSE int(Head(rows).cmdsize) + SumCmdsize(Tail(rows))

\* the header agrees with the load commands stored for its binary
Consistent(D, h) ==
    LET rows == RowsOf(D.load_commands, h.binary_id) IN
    /\ h.ncmds = Value(Len(rows))
    /\ h.sizeofcmds = Value(SumCmdsize(rows))

\* the columns of a header row that describe the header
Columns(h) == <<h.magic, h.cputype, h.cpusubtype, h.caps, h.filetype, h.ncmds,
                h.sizeofcmds, h.flags>>

\* C6: when the load commands are inconsistent with the header, those decoded
\* are still stored and the header is stored flagged: the stored header rows
\* tell a consistent header from an inconsistent one.
C6_InconsistentHeaderFlagged ==
    /\ \A b \in Range(db.binary) :
          (ThisRun(b.id) /\ Finished(b.id)) =>
              LET f == FileAt(fs, b.path) IN
              (f.rc = 0 /\ f.lcs # <<>>) => RowsOf(db.load_commands, b.id) # <<>>
    /\ \A h1, h2 \in Range(db.binary_header) :
          (Finished(h1.binary_id) /\ Finished(h2.binary_id) /\ Columns(h1) = Columns(h2))
              => (Consistent(db, h1) <=> Consistent(db, h2))

-----------------------------------------------------------------------------
(* C7 *)

\* the lines otool -l prints for one load command, after the "Load command" line
BlockLines(b) == << <<"cmd", b.cmd>>, <<"cmdsize", b.cmdsize>> >> \o b.extra

\* C7: for every binary whose process_file call returned, the load_commands
\* rows of the binary, by ascending id, are the load commands of the file in
\* on-disk order: none dropped, duplicated or reordered.
C7_LoadCommandOrder ==
    \A b \in Range(db.binary) :
        (ThisRun(b.id) /\ Finished(b.id)) =>
            LET rows == RowsOf(db.load_commands, b.id)
                f    == FileAt(fs, b.path)
                disk == IF f.rc # 0 THEN <<>> ELSE f.lcs
            IN  /\ Len(rows) = Len(disk)
                /\ \A i \in DOMAIN rows :
                      /\ rows[i].command = disk[i].cmd
                      /\ rows[i].cmdsize = disk[i].cmdsize
                      /\ rows[i].details = BlockLines(disk[i])
                /\ \A i, j \in DOMAIN rows : i < j => rows[i].id < rows[j].id

\* a finished binary whose two different load commands are both stored
C7_Witness ==
    \E b \in Range(db.binary) :
        /\ ThisRun(b.id) /\ Finished(b.id)
        /\ FileAt(fs, b.path).lcs = <<Sig, Seg>>
        /\ Len(RowsOf(db.load_commands, b.id)) = 2

-----------------------------------------------------------------------------
(* C8 *)

\* C8: instruction extraction soft-fails: whatever the disassembler does, the
\* process neither ends with an exception nor blocks inside
\* get_arm64_instructions.
C8_InstructionSoftFail ==
    pc \in {"aborted", "blocked"} => err.where # "get_arm64_instructions"

-----------------------------------------------------------------------------
(* C9 *)

Repeat(x, n) == [i \in 1..n |-> x]

\* C9 as stated: binary record, header parsing, load-command parsing once for
\* each header record, then instruction extraction once.
C9_StagesAsStated ==
    IF Len(log) <= 2
    THEN IsPrefix(log, <<"binary", "headers">>)
    ELSE IsPrefix(log, <<"binary", "headers">>
                       \o Repeat("load_commands", Len(cur.header_list))
                       \o <<"instructions">>)

\* C9 amended: binary record, then header parsing, then instruction extraction,
\* then load-command parsing, each once per binary whatever the number of
\* header records; a call that returned has run all four.
C9_StageOrder ==
    /\ IsPrefix(log, <<"binary", "headers", "instructions", "load_commands">>)
    /\ (log # <<>> /\ cur = Idle) =>
          log = <<"binary", "headers", "instructions", "load_commands">>

\* a call that returned for a binary with two header rows
C9_Witness ==
    /\ cur = Idle
    /\ log = <<"binary", "headers", "instructions", "load_commands">>
    /\ \E b \in Range(db.binary) :
          ThisRun(b.id) /\ Len(RowsOf(db.binary_header, b.id)) = 2

-----------------------------------------------------------------------------
(* C10 *)

\* C10: within one run no file path is inserted into binary more than once,
\* and a committed binary row is never modified or deleted.
C10_OneBinaryPerFile ==
    [][/\ \A i, j \in DOMAIN tx'.binary :
             (ThisRun(i) /\ ThisRun(j) /\ i # j) => tx'.binary[i].path # tx'.binary[j].path
       /\ \A i \in DOMAIN db.binary :
             i \in DOMAIN db'.binary /\ db'.binary[i] = db.binary[i]]_vars

-----------------------------------------------------------------------------
(* C11 *)

\* C11: the scanner never follows a symbolic link: no directory entry that is
\* a symlink is handed to is_mach_o or stored as a binary.
C11_NoSymlinkFollowed ==
    /\ sniff.path # "" => ~islink(fs, sniff.path)
    /\ \A b \in Range(tx.binary) : ThisRun(b.id) => ~islink(fs, b.path)

-----------------------------------------------------------------------------
(* C12 *)

RowTables(D) == <<D.binary, D.binary_header, D.arm_asm_instructions, D.load_commands>>

\* C12: schema creation is idempotent: once the store is initialized it holds
\* each of the four tables exactly once, and every row the file held when the
\* run started is still there, unchanged and in place; the run only appends.
C12_SchemaIdempotent ==
    pc # "create_tables" =>
        /\ Range(db.tables) = AllTables
        /\ Len(db.tables) = Cardinality(AllTables)
        /\ \A k \in DOMAIN RowTables(db) : IsPrefix(RowTables(db0)[k], RowTables(db)[k])
        /\ \A k \in DOMAIN RowTables(tx) : IsPrefix(RowTables(db0)[k], RowTables(tx)[k])

\* a finished second run over a store that held tables and rows, with rows
\* appended to them
C12_Witness ==
    /\ pc = "done"
    /\ Len(db0.tables) = Cardinality(AllTables)
    /\ db0.binary # <<>>
    /\ db0.load_commands # <<>>
    /\ Len(db.binary) > Len(db0.binary)

-----------------------------------------------------------------------------
(* C13 *)

\* the rows of the three tables that reference binary
Referencing(D) ==
    Range(D.binary_header) \cup Range(D.arm_asm_instructions) \cup Range(D.load_commands)

\* C13: referential integrity: in every committed state each header,
\* instruction and load-command row references exactly one committed binary
\* row; and every step that inserts such rows gives them the id of the binary
\* row the running process_file call inserted for its own file.
C13_ReferentialIntegrity ==
    /\ [](\A r \in Referencing(db) :
             Cardinality({i \in DOMAIN db.binary : db.binary[i].id = r.binary_id}) = 1)
    /\ [][\A r \in Referencing(tx') \ Referencing(tx) :
             /\ r.binary_id = cur.binary_id
             /\ ThisRun(r.binary_id)
             /\ r.binary_id \in DOMAIN tx.binary
             /\ tx.binary[r.binary_id].id = r.binary_id
             /\ tx.binary[r.binary_id].path = cur.file_path
             /\ r.binary_id = Len(tx.binary)]_vars

\* two binaries of different files committed in this run, the second with
\* header, instruction and load-command rows of its own
C13_Witness ==
    \E b1, b2 \in Range(db.binary) :
        /\ ThisRun(b1.id) /\ ThisRun(b2.id) /\ b1.id < b2.id /\ b1.path # b2.path
        /\ RowsOf(db.binary_header, b2.id) # <<>>
        /\ RowsOf(db.arm_asm_instructions, b2.id) # <<>>
        /\ RowsOf(db.load_commands, b2.id) # <<>>
        /\ RowsOf(db.load_commands, b1.id) # <<>>

====
